---- MODULE Spec2Model ----
(***************************************************************************)
(* presslabs/kutil: the Endpoints create-or-patch helper                   *)
(* (core/v1/endpoints.go) running against an API server, and the           *)
(* ResourceHandlerFuncs adaptor (admission/api/handler.go).                *)
(***************************************************************************)
EXTENDS Integers, Sequences, FiniteSets, TLC

VARIABLES
    store,      \* the API server's Endpoints objects, by name
    pc,         \* where each invocation of CreateOrPatchEndpoints stands
    meta,       \* the caller's ObjectMeta of each invocation
    transform,  \* the caller's transform of each invocation
    cur,        \* the object behind the pointer cur of each invocation
    fetched,    \* the Get response as it was received (history)
    patch,      \* the patch each invocation computed (history)
    calls,      \* the API calls each invocation issued, in order (history)
    tcalls,     \* the arguments transform was applied to, in order (history)
    ret,        \* what each invocation returned
    r,          \* the ResourceHandlerFuncs value
    hlog,       \* the callbacks invoked by the last adaptor call (history)
    hcall,      \* the last adaptor call: method and arguments
    hret        \* what the last adaptor call returned

evars == <<store, pc, meta, transform, cur, fetched, patch, calls, tcalls, ret>>
hvars == <<r, hlog, hcall, hret>>
vars == <<store, pc, meta, transform, cur, fetched, patch, calls, tcalls, ret,
          r, hlog, hcall, hret>>

----------------------------------------------------------------------------
(* Bounds *)

\* Non-empty Subsets lists are told apart by an id in 1..MaxSubset.
MaxSubset == 2

\* The concurrent invocations of CreateOrPatchEndpoints.
Procs == {"p1", "p2"}

\* The object names callers and transforms use; one namespace.
Names == {"n1", "n2"}
Namespace == "default"

----------------------------------------------------------------------------
(* Endpoints objects as Go values *)

\* A Go slice: nil, empty but not nil (id 0), or a non-empty list (id > 0).
NilSlice == [isNil |-> TRUE, id |-> 0]
EmptySlice == [isNil |-> FALSE, id |-> 0]
Slices == {NilSlice} \cup [isNil : {FALSE}, id : 0..MaxSubset]

\* One label key; "" stands for the key being absent.
LabelVals == {"", "x"}

\* A nil *core.Endpoints.
NilObj == [kind |-> "nil", apiVersion |-> "", namespace |-> "", name |-> "",
           label |-> "", subsets |-> NilSlice]

\* The caller's metav1.ObjectMeta.
Metas == [namespace : {Namespace}, name : Names, label : LabelVals]
NoMeta == [namespace |-> "", name |-> "", label |-> ""]

\* core.SchemeGroupVersion.String()
SchemeGroupVersion == "v1"

\* Mutant: only the name and namespace of the caller's ObjectMeta are kept.
BareEndpointsNameOnly(m) ==
    [kind |-> "Endpoints", apiVersion |-> SchemeGroupVersion,
     namespace |-> m.namespace, name |-> m.name, label |-> "",
     subsets |-> NilSlice]

\* &core.Endpoints{TypeMeta: {Kind: "Endpoints", APIVersion: ...}, ObjectMeta: meta}
BareEndpoints(m) ==
    [kind |-> "Endpoints", apiVersion |-> SchemeGroupVersion,
     namespace |-> m.namespace, name |-> m.name, label |-> m.label,
     subsets |-> NilSlice]

----------------------------------------------------------------------------
(* The caller's transforms *)

\* A transform sets one field of its argument (or none) and returns the
\* result; inPlace tells whether it writes through the pointer it was given
\* and returns that pointer, or returns a fresh object.
NoTransform == [field |-> "unset", slice |-> NilSlice, str |-> "", inPlace |-> FALSE]
Transforms ==
    {[field |-> "none", slice |-> NilSlice, str |-> "", inPlace |-> TRUE]}
    \cup [field : {"subsets"}, slice : Slices \ {NilSlice}, str : {""}, inPlace : {TRUE}]
    \cup [field : {"subsets"}, slice : {[isNil |-> FALSE, id |-> 1]}, str : {""},
          inPlace : {FALSE}]
    \cup [field : {"label"}, slice : {NilSlice}, str : LabelVals, inPlace : {TRUE}]
    \cup [field : {"name"}, slice : {NilSlice}, str : {"n2"}, inPlace : {TRUE}]

\* The inputs of the two racing invocations: both work on the object n1.
RaceMetas == [namespace : {Namespace}, name : {"n1"}, label : {""}]
RaceTransforms ==
    [field : {"subsets"}, slice : [isNil : {FALSE}, id : {1, MaxSubset}], str : {""},
     inPlace : {TRUE}]
    \cup [field : {"label"}, slice : {NilSlice}, str : {"x"}, inPlace : {TRUE}]

\* transform(in): the object the returned pointer points to.
Apply(t, in) ==
    CASE t.field = "subsets" -> [in EXCEPT !.subsets = t.slice]
      [] t.field = "label" -> [in EXCEPT !.label = t.str]
      [] t.field = "name" -> [in EXCEPT !.name = t.str]
      [] OTHER -> in

----------------------------------------------------------------------------
(* JSON documents and strategic merge patches *)

JsonFields == {"kind", "apiVersion", "namespace", "name", "label", "subsets"}

\* json.Marshal of an Endpoints: every modelled field is omitempty, so an
\* empty string, a nil slice and an empty slice are all left out ("" and 0).
Marshal(o) ==
    [kind |-> o.kind, apiVersion |-> o.apiVersion, namespace |-> o.namespace,
     name |-> o.name, label |-> o.label, subsets |-> o.subsets.id]

\* Decoding a document into an Endpoints: a field left out decodes as nil.
Unmarshal(j) ==
    [kind |-> j.kind, apiVersion |-> j.apiVersion, namespace |-> j.namespace,
     name |-> j.name, label |-> j.label,
     subsets |-> IF j.subsets = 0 THEN NilSlice
                 ELSE [isNil |-> FALSE, id |-> j.subsets]]

\* One field of a patch: left out of the patch, null (delete), or a new value.
Keep(v) == [op |-> "keep", v |-> v]
Null(v) == [op |-> "null", v |-> v]
Set(v) == [op |-> "set", v |-> v]

DiffStr(a, b) == IF a = b THEN Keep("") ELSE IF b = "" THEN Null("") ELSE Set(b)
DiffInt(a, b) == IF a = b THEN Keep(0) ELSE IF b = 0 THEN Null(0) ELSE Set(b)

\* strategicpatch.CreateTwoWayMergePatch(original, modified, core.Endpoints{})
CreateTwoWayMergePatch(original, modified) ==
    [kind |-> DiffStr(original.kind, modified.kind),
     apiVersion |-> DiffStr(original.apiVersion, modified.apiVersion),
     namespace |-> DiffStr(original.namespace, modified.namespace),
     name |-> DiffStr(original.name, modified.name),
     label |-> DiffStr(original.label, modified.label),
     subsets |-> DiffInt(original.subsets, modified.subsets)]

NoPatch == CreateTwoWayMergePatch(Marshal(NilObj), Marshal(NilObj))

\* Mutant: only len(patch) == 0 is tested, and the diff of two equal
\* documents is "{}".
IsEmptyPatchLenOnly(p) == FALSE

\* len(patch) == 0 || string(patch) == "{}"
IsEmptyPatch(p) == \A f \in JsonFields : p[f].op = "keep"

\* The server applying a strategic merge patch to a stored document.
ApplyPatch(doc, p) ==
    [f \in JsonFields |-> IF p[f].op = "keep" THEN doc[f] ELSE p[f].v]

----------------------------------------------------------------------------
(* The API server behind c.CoreV1().Endpoints(namespace) *)

Exists(s, name) == s[name] /= NilObj

\* What the server answers besides its own verdict: nothing, or a failure
\* of the request (the network, the server) that leaves the store alone.
Faults == {"none", "Internal"}

\* Get(name, GetOptions{}): the stored object, or NotFound.
ServerGet(s, ns, name, fault) ==
    IF fault /= "none" THEN [store |-> s, out |-> NilObj, err |-> fault]
    ELSE IF ns /= Namespace \/ name \notin Names \/ ~Exists(s, name)
    THEN [store |-> s, out |-> NilObj, err |-> "NotFound"]
    ELSE [store |-> s, out |-> s[name], err |-> "nil"]

\* Create(obj): stores what the request body decodes to, under the body's
\* name; AlreadyExists when that name is taken.
ServerCreate(s, ns, obj, fault) ==
    LET body == Unmarshal(Marshal(obj))
        new == [body EXCEPT !.kind = "Endpoints", !.apiVersion = SchemeGroupVersion]
    IN  IF fault /= "none" THEN [store |-> s, out |-> NilObj, err |-> fault]
        ELSE IF body.namespace /= ns \/ ns /= Namespace \/ body.name \notin Names
        THEN [store |-> s, out |-> NilObj, err |-> "Invalid"]
        ELSE IF Exists(s, body.name)
        THEN [store |-> s, out |-> NilObj, err |-> "AlreadyExists"]
        ELSE [store |-> [s EXCEPT ![body.name] = new], out |-> new, err |-> "nil"]

\* Patch(name, StrategicMergePatchType, patch): merges the patch into the
\* object stored now; identity and type cannot be patched.
ServerPatch(s, ns, name, p, fault) ==
    IF fault /= "none" THEN [store |-> s, out |-> NilObj, err |-> fault]
    ELSE IF ns /= Namespace \/ name \notin Names \/ ~Exists(s, name)
    THEN [store |-> s, out |-> NilObj, err |-> "NotFound"]
    ELSE LET new == Unmarshal(ApplyPatch(Marshal(s[name]), p))
         IN  IF \E f \in {"kind", "apiVersion", "namespace", "name"} : new[f] /= s[name][f]
             THEN [store |-> s, out |-> NilObj, err |-> "Invalid"]
             ELSE [store |-> [s EXCEPT ![name] = new], out |-> new, err |-> "nil"]

----------------------------------------------------------------------------
(* core/v1/endpoints.go *)

\* Mutant: every failed Get is taken for not-found.
BranchAnyErrorCreates(err) == IF err /= "nil" THEN "create" ELSE "patch"

\* kerr.IsNotFound(err), then err != nil: the branch taken after the Get.
Branch(err) ==
    IF err = "NotFound" THEN "create" ELSE IF err /= "nil" THEN "fail" ELSE "patch"

\* The argument of Create: transform applied to the bare object.
CreateArg(m, t) == Apply(t, BareEndpoints(m))

\* Mutant: the tag follows the error.
CreateResultBySuccess(out, err) ==
    [obj |-> out, verb |-> IF err = "nil" THEN "Created" ELSE "Unchanged", err |-> err]

\* return out, kutil.VerbCreated, err
CreateResult(out, err) == [obj |-> out, verb |-> "Created", err |-> err]

\* return nil, kutil.VerbUnchanged, err
ErrorResult(err) == [obj |-> NilObj, verb |-> "Unchanged", err |-> err]

\* Mutant: transform is handed cur itself.
NoDeepCopy(c) == [obj |-> c, aliasesCur |-> TRUE]

\* cur.DeepCopy(): the same value behind a pointer of its own.
DeepCopy(c) == [obj |-> c, aliasesCur |-> FALSE]

\* return cur, kutil.VerbUnchanged, nil
UnchangedResult(c) == [obj |-> c, verb |-> "Unchanged", err |-> "nil"]

\* Mutant: the request goes to the transformed object's name.
PatchTargetMod(c, mod) == [namespace |-> mod.namespace, name |-> mod.name]

\* The namespace and name the Patch request goes to.
PatchTarget(c, mod) == [namespace |-> c.namespace, name |-> c.name]

\* return out, kutil.VerbPatched, err
PatchResult(out, err) == [obj |-> out, verb |-> "Patched", err |-> err]

\* Mutant: a failed write is retried from the Get.
AfterWriteRetry(err) == IF err /= "nil" THEN "get" ELSE "done"

\* Mutant: a rejected Create switches to the patch path by fetching again.
AfterWriteRefetch(err) == IF err = "AlreadyExists" THEN "get" ELSE "done"

\* Where an invocation stands once its write call has answered.
AfterWrite(err) == "done"

\* json.Marshal and CreateTwoWayMergePatch can each fail.
LocalFaults == {"none", "MarshalCur", "MarshalMod", "CreatePatch"}

NoResult == [obj |-> NilObj, verb |-> "none", err |-> "nil"]

Call(op, ns, name, obj, p, out, err) ==
    [op |-> op, namespace |-> ns, name |-> name, obj |-> obj, patch |-> p,
     out |-> out, err |-> err]

\* A caller enters CreateOrPatchEndpoints(c, meta, transform).
Invoke(p, MS, TS) ==
    /\ pc[p] = "idle"
    /\ \E m \in MS, t \in TS :
          /\ meta' = [meta EXCEPT ![p] = m]
          /\ transform' = [transform EXCEPT ![p] = t]
    /\ pc' = [pc EXCEPT ![p] = "get"]
    /\ UNCHANGED <<store, cur, fetched, patch, calls, tcalls, ret, hvars>>

\* cur, err := c.CoreV1().Endpoints(meta.Namespace).Get(meta.Name, ...)
\* and the branch on err.
Get(p) ==
    /\ pc[p] = "get"
    /\ \E fault \in Faults :
        LET res == ServerGet(store, meta[p].namespace, meta[p].name, fault)
            br == Branch(res.err)
        IN  /\ calls' = [calls EXCEPT ![p] = Append(@,
                    Call("Get", meta[p].namespace, meta[p].name, NilObj, NoPatch,
                         res.out, res.err))]
            /\ cur' = [cur EXCEPT ![p] = res.out]
            /\ fetched' = [fetched EXCEPT ![p] = res.out]
            /\ pc' = [pc EXCEPT ![p] = IF br = "fail" THEN "done" ELSE br]
            /\ ret' = [ret EXCEPT ![p] = IF br = "fail" THEN ErrorResult(res.err) ELSE @]
    /\ UNCHANGED <<store, meta, transform, patch, tcalls, hvars>>

\* out, err := c.CoreV1().Endpoints(meta.Namespace).Create(transform(&core.Endpoints{...}))
Create(p) ==
    /\ pc[p] = "create"
    /\ \E fault \in Faults :
        LET arg == CreateArg(meta[p], transform[p])
            res == ServerCreate(store, meta[p].namespace, arg, fault)
        IN  /\ tcalls' = [tcalls EXCEPT ![p] = Append(@, BareEndpoints(meta[p]))]
            /\ calls' = [calls EXCEPT ![p] = Append(@,
                    Call("Create", meta[p].namespace, arg.name, arg, NoPatch,
                         res.out, res.err))]
            /\ store' = res.store
            /\ ret' = [ret EXCEPT ![p] = CreateResult(res.out, res.err)]
            /\ pc' = [pc EXCEPT ![p] = AfterWrite(res.err)]
    /\ UNCHANGED <<meta, transform, cur, fetched, patch, hvars>>

\* PatchEndpoints(c, cur, transform) and PatchEndpointsObject(c, cur, mod).
Patch(p) ==
    /\ pc[p] = "patch"
    /\ \E lf \in LocalFaults, fault \in Faults :
        LET arg == DeepCopy(cur[p])
            mod == Apply(transform[p], arg.obj)
            \* a transform writing through a pointer that aliases cur changes cur
            c == IF arg.aliasesCur /\ transform[p].inPlace THEN mod ELSE cur[p]
            pt == CreateTwoWayMergePatch(Marshal(c), Marshal(mod))
            to == PatchTarget(c, mod)
            res == ServerPatch(store, to.namespace, to.name, pt, fault)
        IN  /\ tcalls' = [tcalls EXCEPT ![p] = Append(@, arg.obj)]
            /\ cur' = [cur EXCEPT ![p] = c]
            /\ IF lf /= "none"
               THEN /\ fault = "none"
                    /\ ret' = [ret EXCEPT ![p] = ErrorResult(lf)]
                    /\ pc' = [pc EXCEPT ![p] = "done"]
                    /\ UNCHANGED <<store, calls, patch>>
               ELSE IF IsEmptyPatch(pt)
               THEN /\ fault = "none"
                    /\ patch' = [patch EXCEPT ![p] = <<pt>>]
                    /\ ret' = [ret EXCEPT ![p] = UnchangedResult(c)]
                    /\ pc' = [pc EXCEPT ![p] = "done"]
                    /\ UNCHANGED <<store, calls>>
               ELSE /\ patch' = [patch EXCEPT ![p] = <<pt>>]
                    /\ calls' = [calls EXCEPT ![p] = Append(@,
                            Call("Patch", to.namespace, to.name, NilObj, pt,
                                 res.out, res.err))]
                    /\ store' = res.store
                    /\ ret' = [ret EXCEPT ![p] = PatchResult(res.out, res.err)]
                    /\ pc' = [pc EXCEPT ![p] = AfterWrite(res.err)]
    /\ UNCHANGED <<meta, transform, fetched, hvars>>

\* The caller has its result; the invocation is over.
Return(p) ==
    /\ pc[p] = "done"
    /\ pc' = [pc EXCEPT ![p] = "idle"]
    /\ meta' = [meta EXCEPT ![p] = NoMeta]
    /\ transform' = [transform EXCEPT ![p] = NoTransform]
    /\ cur' = [cur EXCEPT ![p] = NilObj]
    /\ fetched' = [fetched EXCEPT ![p] = NilObj]
    /\ patch' = [patch EXCEPT ![p] = <<>>]
    /\ calls' = [calls EXCEPT ![p] = <<>>]
    /\ tcalls' = [tcalls EXCEPT ![p] = <<>>]
    /\ ret' = [ret EXCEPT ![p] = NoResult]
    /\ UNCHANGED <<store, hvars>>

----------------------------------------------------------------------------
(* admission/api/handler.go *)

\* The interface{} values handed to the adaptor.
Objs == {"nil", "a", "b"}

\* The functions a caller can put in the fields; "nil" is an unset field.
\* AddFunc: echo returns its argument, stamp returns another object, fail
\* returns an error and a value with it.
AddFuncs == {"echo", "stamp", "fail"}
\* UpdateFunc: new and old return the argument of that name.
UpdateFuncs == {"new", "old", "fail"}
DeleteFuncs == {"ok", "fail"}

Handlers ==
    [AddFunc : AddFuncs \cup {"nil"}, UpdateFunc : UpdateFuncs \cup {"nil"},
     DeleteFunc : DeleteFuncs \cup {"nil"}]

NilReturn == [val |-> "nil", err |-> "nil"]

\* What each function returns.
AddFuncApply(f, obj) ==
    CASE f = "echo" -> [val |-> obj, err |-> "nil"]
      [] f = "stamp" -> [val |-> "b", err |-> "nil"]
      [] OTHER -> [val |-> "a", err |-> "add failed"]

UpdateFuncApply(f, oldObj, newObj) ==
    CASE f = "new" -> [val |-> newObj, err |-> "nil"]
      [] f = "old" -> [val |-> oldObj, err |-> "nil"]
      [] OTHER -> [val |-> "nil", err |-> "update failed"]

DeleteFuncApply(f, obj) ==
    IF f = "ok" THEN [val |-> "nil", err |-> "nil"]
    ELSE [val |-> "nil", err |-> "delete failed"]

Invocation(field, f, args, res) == [field |-> field, f |-> f, args |-> args, ret |-> res]

\* Mutant: OnDelete tests AddFunc and reports its failure.
OnDeleteTestsAddFunc(h, obj) ==
    IF h.AddFunc /= "nil"
    THEN LET res == DeleteFuncApply(h.DeleteFunc, obj)
         IN  [log |-> <<Invocation("DeleteFunc", h.DeleteFunc, <<obj>>, res)>>, ret |-> res]
    ELSE [log |-> <<>>, ret |-> NilReturn]

\* Mutant: OnUpdate hands its arguments over in the other order.
OnUpdateSwapped(h, oldObj, newObj) ==
    IF h.UpdateFunc /= "nil"
    THEN LET res == UpdateFuncApply(h.UpdateFunc, newObj, oldObj)
         IN  [log |-> <<Invocation("UpdateFunc", h.UpdateFunc, <<newObj, oldObj>>, res)>>,
              ret |-> res]
    ELSE [log |-> <<>>, ret |-> NilReturn]

\* func (r ResourceHandlerFuncs) OnAdd(obj interface{}) (interface{}, error)
OnAdd(h, obj) ==
    IF h.AddFunc /= "nil"
    THEN LET res == AddFuncApply(h.AddFunc, obj)
         IN  [log |-> <<Invocation("AddFunc", h.AddFunc, <<obj>>, res)>>, ret |-> res]
    ELSE [log |-> <<>>, ret |-> NilReturn]

\* func (r ResourceHandlerFuncs) OnUpdate(oldObj, newObj interface{}) (interface{}, error)
OnUpdate(h, oldObj, newObj) ==
    IF h.UpdateFunc /= "nil"
    THEN LET res == UpdateFuncApply(h.UpdateFunc, oldObj, newObj)
         IN  [log |-> <<Invocation("UpdateFunc", h.UpdateFunc, <<oldObj, newObj>>, res)>>,
              ret |-> res]
    ELSE [log |-> <<>>, ret |-> NilReturn]

\* func (r ResourceHandlerFuncs) OnDelete(obj interface{}) error
OnDelete(h, obj) ==
    IF h.DeleteFunc /= "nil"
    THEN LET res == DeleteFuncApply(h.DeleteFunc, obj)
         IN  [log |-> <<Invocation("DeleteFunc", h.DeleteFunc, <<obj>>, res)>>, ret |-> res]
    ELSE [log |-> <<>>, ret |-> NilReturn]

\* A caller builds a ResourceHandlerFuncs value.
NewHandler ==
    /\ \E h \in Handlers : h /= r /\ r' = h
    /\ hlog' = <<>>
    /\ hcall' = [method |-> "none", args |-> <<>>]
    /\ hret' = NilReturn
    /\ UNCHANGED evars

CallOnAdd ==
    /\ \E obj \in Objs :
          /\ hcall' = [method |-> "OnAdd", args |-> <<obj>>]
          /\ hlog' = OnAdd(r, obj).log
          /\ hret' = OnAdd(r, obj).ret
    /\ UNCHANGED <<r, evars>>

CallOnUpdate ==
    /\ \E oldObj \in Objs, newObj \in Objs :
          /\ hcall' = [method |-> "OnUpdate", args |-> <<oldObj, newObj>>]
          /\ hlog' = OnUpdate(r, oldObj, newObj).log
          /\ hret' = OnUpdate(r, oldObj, newObj).ret
    /\ UNCHANGED <<r, evars>>

CallOnDelete ==
    /\ \E obj \in Objs :
          /\ hcall' = [method |-> "OnDelete", args |-> <<obj>>]
          /\ hlog' = OnDelete(r, obj).log
          /\ hret' = OnDelete(r, obj).ret
    /\ UNCHANGED <<r, evars>>

----------------------------------------------------------------------------
(* Specifications *)

HInit ==
    /\ r = [AddFunc |-> "nil", UpdateFunc |-> "nil", DeleteFunc |-> "nil"]
    /\ hlog = <<>>
    /\ hcall = [method |-> "none", args |-> <<>>]
    /\ hret = NilReturn

Init ==
    /\ store = [n \in Names |-> NilObj]
    /\ pc = [p \in Procs |-> "idle"]
    /\ meta = [p \in Procs |-> NoMeta]
    /\ transform = [p \in Procs |-> NoTransform]
    /\ cur = [p \in Procs |-> NilObj]
    /\ fetched = [p \in Procs |-> NilObj]
    /\ patch = [p \in Procs |-> <<>>]
    /\ calls = [p \in Procs |-> <<>>]
    /\ tcalls = [p \in Procs |-> <<>>]
    /\ ret = [p \in Procs |-> NoResult]
    /\ HInit

\* The objects the server can hold.
Stored ==
    [kind : {"Endpoints"}, apiVersion : {SchemeGroupVersion}, namespace : {Namespace},
     name : Names, label : LabelVals, subsets : Slices \ {EmptySlice}]

\* Another client of the API server creates, changes or deletes an object.
OtherClient ==
    /\ \E n \in Names :
       \E o \in {x \in Stored : x.name = n} \cup {NilObj} :
          /\ o /= store[n]
          /\ store' = [store EXCEPT ![n] = o]
    /\ UNCHANGED <<pc, meta, transform, cur, fetched, patch, calls, tcalls, ret, hvars>>

\* One invocation against a server that other clients use as well.
Next ==
    \/ Invoke("p1", Metas, Transforms)
    \/ Get("p1")
    \/ Create("p1")
    \/ Patch("p1")
    \/ Return("p1")
    \/ OtherClient

Spec == Init /\ [][Next]_vars

\* Two invocations racing on one object, and nobody else.
NextRace ==
    \E p \in Procs :
        \/ Invoke(p, RaceMetas, RaceTransforms)
        \/ Get(p)
        \/ Create(p)
        \/ Patch(p)
        \/ Return(p)

SpecRace == Init /\ [][NextRace]_vars

\* The adaptor and its callers.
NextHandler ==
    \/ NewHandler
    \/ CallOnAdd
    \/ CallOnUpdate
    \/ CallOnDelete

SpecHandler == Init /\ [][NextHandler]_vars

----------------------------------------------------------------------------
(* Vocabulary of the properties *)

Done(p) == pc[p] = "done"

\* The Get of invocation p answered NotFound, an object, or another error.
GotNotFound(p) == Len(calls[p]) >= 1 /\ calls[p][1].op = "Get" /\ calls[p][1].err = "NotFound"
GotObject(p) == Len(calls[p]) >= 1 /\ calls[p][1].op = "Get" /\ calls[p][1].err = "nil"
GotError(p) ==
    Len(calls[p]) >= 1 /\ calls[p][1].op = "Get" /\ calls[p][1].err \notin {"nil", "NotFound"}

Issued(p, op) == {i \in 1..Len(calls[p]) : calls[p][i].op = op}

\* Serialization and patch computation went through.
LocalOk(p) == ret[p].err \notin (LocalFaults \ {"none"})

\* The serialized transformed copy, computed from the Get response.
OrigDoc(p) == Marshal(fetched[p])
ModDoc(p) == Marshal(Apply(transform[p], fetched[p]))

\* pt turns the document a into the document b and touches nothing else.
IsDiff(pt, a, b) ==
    /\ \A f \in JsonFields : pt[f].op = "keep" <=> a[f] = b[f]
    /\ \A f \in JsonFields : pt[f].op = "null" <=> (a[f] /= b[f] /\ b[f] = Marshal(NilObj)[f])
    /\ \A f \in JsonFields : pt[f].op /= "keep" => pt[f].v = b[f]

----------------------------------------------------------------------------
(* C1 *)

\* C1: an invocation whose Get reported not-found issues exactly one Create,
\* whose argument is transform applied to the bare object with the caller's
\* ObjectMeta and kind Endpoints / apiVersion v1, issues no Patch, applies
\* transform to that bare object only, and returns Created with the Create's
\* answer.
C1_CreatePath ==
    \A p \in Procs :
        (Done(p) /\ GotNotFound(p)) =>
            LET bare == [kind |-> "Endpoints", apiVersion |-> "v1",
                         namespace |-> meta[p].namespace, name |-> meta[p].name,
                         label |-> meta[p].label, subsets |-> NilSlice]
            IN  /\ Len(calls[p]) = 2
                /\ calls[p][2].op = "Create"
                /\ calls[p][2].namespace = meta[p].namespace
                /\ calls[p][2].obj = Apply(transform[p], bare)
                /\ tcalls[p] = <<bare>>
                /\ Issued(p, "Patch") = {}
                /\ ret[p].verb = "Created"
                /\ ret[p].obj = calls[p][2].out
                /\ ret[p].err = calls[p][2].err

C1_Witness ==
    \E p \in Procs :
        /\ Done(p) /\ GotNotFound(p)
        /\ meta[p].label = "x"
        /\ transform[p].field = "subsets" /\ transform[p].slice.id = MaxSubset
        /\ ret[p].verb = "Created" /\ ret[p].err = "nil"
        /\ store[meta[p].name] = ret[p].obj

----------------------------------------------------------------------------
(* C2 *)

\* C2: the step that finds the object present and the serialized transformed
\* copy identical to the serialized fetched object (an empty patch) returns
\* the fetched original with Unchanged and a nil error, issues no Create and
\* no Patch, and leaves the store as it is.
C2_UnchangedPath ==
    [][\A p \in Procs :
        (/\ pc[p] = "patch" /\ pc'[p] = "done"
         /\ LocalOk(p)'
         /\ ModDoc(p) = OrigDoc(p))
        => /\ ret'[p] = [obj |-> fetched[p], verb |-> "Unchanged", err |-> "nil"]
           /\ calls'[p] = calls[p]
           /\ Len(calls[p]) = 1
           /\ Issued(p, "Create") = {} /\ Issued(p, "Patch") = {}
           /\ store' = store]_vars

\* The transform replaced nil Subsets by an empty list: another Go value,
\* the same document.
C2_Witness ==
    \E p \in Procs :
        /\ Done(p) /\ GotObject(p) /\ LocalOk(p)
        /\ Apply(transform[p], fetched[p]) /= fetched[p]
        /\ ModDoc(p) = OrigDoc(p)
        /\ ret[p].verb = "Unchanged" /\ ret[p].obj = fetched[p]

----------------------------------------------------------------------------
(* C3 *)

\* C3: an invocation that finds the object present and computes a non-empty
\* patch (the serialized transformed copy differs from the serialized fetched
\* object) issues exactly one Patch, to the fetched object's namespace and
\* name, carrying the diff from the fetched to the transformed object, and
\* returns Patched with the server's answer to that Patch.
C3_PatchPath ==
    \A p \in Procs :
        (Done(p) /\ GotObject(p) /\ LocalOk(p) /\ ModDoc(p) /= OrigDoc(p)) =>
            /\ Len(calls[p]) = 2
            /\ calls[p][2].op = "Patch"
            /\ calls[p][2].namespace = fetched[p].namespace
            /\ calls[p][2].name = fetched[p].name
            /\ IsDiff(calls[p][2].patch, OrigDoc(p), ModDoc(p))
            /\ Issued(p, "Create") = {}
            /\ ret[p].verb = "Patched"
            /\ ret[p].obj = calls[p][2].out
            /\ ret[p].err = calls[p][2].err

\* A patch went through and the returned object shows the transform's change.
C3_Witness ==
    \E p \in Procs :
        /\ Done(p) /\ GotObject(p)
        /\ transform[p].field = "subsets" /\ transform[p].slice.id = MaxSubset
        /\ fetched[p].subsets.id /= MaxSubset
        /\ ret[p].verb = "Patched" /\ ret[p].err = "nil"
        /\ ret[p].obj = Apply(transform[p], fetched[p])
        /\ store[fetched[p].name] = ret[p].obj

----------------------------------------------------------------------------
(* C4 *)

\* C4: an invocation whose Get fails with an error other than not-found
\* returns that error with Unchanged and a nil object, never applies
\* transform and issues no Create and no Patch.
C4_GetError ==
    \A p \in Procs :
        GotError(p) =>
            /\ Done(p)
            /\ ret[p] = [obj |-> NilObj, verb |-> "Unchanged", err |-> calls[p][1].err]
            /\ tcalls[p] = <<>>
            /\ Len(calls[p]) = 1

C4_Witness ==
    \E p \in Procs :
        /\ Done(p) /\ GotError(p)
        /\ ret[p].err = "Internal"
        /\ store[meta[p].name] /= NilObj
        /\ transform[p].field = "subsets"

----------------------------------------------------------------------------
(* C5, C6 *)

\* C5: OnAdd, OnUpdate and OnDelete with their own function field unset
\* return nil values and a nil error and invoke no callback, whatever the
\* arguments and whatever the other two fields hold.
C5_UnsetIsNoOp ==
    /\ (hcall.method = "OnAdd" /\ r.AddFunc = "nil")
          => (hret = [val |-> "nil", err |-> "nil"] /\ hlog = <<>>)
    /\ (hcall.method = "OnUpdate" /\ r.UpdateFunc = "nil")
          => (hret = [val |-> "nil", err |-> "nil"] /\ hlog = <<>>)
    /\ (hcall.method = "OnDelete" /\ r.DeleteFunc = "nil")
          => (hret = [val |-> "nil", err |-> "nil"] /\ hlog = <<>>)

\* OnUpdate on a value with only UpdateFunc unset.
C5_Witness ==
    /\ hcall.method = "OnUpdate" /\ hcall.args = <<"a", "b">>
    /\ r.UpdateFunc = "nil" /\ r.AddFunc = "echo" /\ r.DeleteFunc = "fail"
    /\ hlog = <<>>

\* The field a method delegates to.
FieldOf(method) ==
    CASE method = "OnAdd" -> "AddFunc"
      [] method = "OnUpdate" -> "UpdateFunc"
      [] method = "OnDelete" -> "DeleteFunc"

\* What the function in a field returns for the given arguments.
Expected(field, f, args) ==
    CASE field = "AddFunc" -> AddFuncApply(f, args[1])
      [] field = "UpdateFunc" -> UpdateFuncApply(f, args[1], args[2])
      [] field = "DeleteFunc" -> DeleteFuncApply(f, args[1])

\* C6: OnAdd, OnUpdate and OnDelete with their own function field set invoke
\* that function once, with the arguments of the call in their order, invoke
\* neither of the other two, and return what the function returned.
C6_SetDelegatesOnce ==
    (hcall.method /= "none" /\ r[FieldOf(hcall.method)] /= "nil") =>
        /\ Len(hlog) = 1
        /\ hlog[1].field = FieldOf(hcall.method)
        /\ hlog[1].f = r[FieldOf(hcall.method)]
        /\ hlog[1].args = hcall.args
        /\ hlog[1].ret = Expected(hlog[1].field, hlog[1].f, hcall.args)
        /\ hret = hlog[1].ret

\* UpdateFunc got oldObj and newObj in that order and its error came back.
C6_Witness ==
    /\ hcall.method = "OnUpdate" /\ hcall.args = <<"a", "b">>
    /\ r.UpdateFunc = "old" /\ r.AddFunc = "stamp" /\ r.DeleteFunc = "ok"
    /\ hret = [val |-> "a", err |-> "nil"]
    /\ Len(hlog) = 1

----------------------------------------------------------------------------
(* C7 *)

\* A call that failed; a Get answering not-found is the create path's
\* condition and no failure.
Failed(c) == c.err /= "nil" /\ ~(c.op = "Get" /\ c.err = "NotFound")

\* C7: an invocation issues one Get, as its first call, and at most one write
\* after it, a Create or a Patch; a failed call is the invocation's last call,
\* ends it and is the error returned.
C7_NoRetry ==
    \A p \in Procs :
        /\ Len(calls[p]) <= 2
        /\ pc[p] \in {"create", "patch", "done"} => Len(calls[p]) >= 1
        /\ Len(calls[p]) >= 1 => calls[p][1].op = "Get"
        /\ Len(calls[p]) = 2 => calls[p][2].op \in {"Create", "Patch"}
        /\ \A i \in 1..Len(calls[p]) :
              Failed(calls[p][i]) =>
                  /\ i = Len(calls[p])
                  /\ Done(p)
                  /\ ret[p].err = calls[p][i].err

\* A Patch that failed after a Get that went through.
C7_Witness ==
    \E p \in Procs :
        /\ Done(p) /\ Len(calls[p]) = 2
        /\ calls[p][2].op = "Patch" /\ calls[p][2].err = "Internal"
        /\ ret[p].err = "Internal"

----------------------------------------------------------------------------
(* C9 *)

\* C9: on the patch path transform is applied once, to a copy holding the
\* fetched value; the fetched object is as it was received even when the
\* transform writes through its argument; the patch computed is the diff
\* from the fetched object to the transform's result, so a transform that
\* writes through its argument and changes the serialized object yields a
\* non-empty patch and the outcome Patched.
C9_TransformOnCopy ==
    \A p \in Procs :
        (Done(p) /\ GotObject(p)) =>
            /\ tcalls[p] = <<fetched[p]>>
            /\ cur[p] = fetched[p]
            /\ LocalOk(p) =>
                  /\ Len(patch[p]) = 1
                  /\ IsDiff(patch[p][1], OrigDoc(p), ModDoc(p))
                  /\ (transform[p].inPlace /\ ModDoc(p) /= OrigDoc(p)) =>
                        /\ \E f \in JsonFields : patch[p][1][f].op /= "keep"
                        /\ ret[p].verb = "Patched"
                        /\ Issued(p, "Patch") /= {}
                        /\ calls[p][2].patch = patch[p][1]

\* A transform that writes through its argument changed Subsets, and the
\* pointer cur still shows what the Get returned.
C9_Witness ==
    \E p \in Procs :
        /\ Done(p) /\ GotObject(p)
        /\ transform[p].inPlace /\ transform[p].field = "subsets"
        /\ transform[p].slice.id = 1 /\ fetched[p].subsets.id = MaxSubset
        /\ cur[p] = fetched[p]
        /\ ret[p].verb = "Patched" /\ ret[p].err = "nil"
        /\ ret[p].obj.subsets.id = 1

----------------------------------------------------------------------------
(* C10 *)

Write(c) == c.op \in {"Create", "Patch"}

\* C10: the tag of a completed invocation tells which write call was issued:
\* Created exactly when a Create was, Patched exactly when a Patch was,
\* Unchanged exactly when neither was; and the step in which a write fails
\* returns the error with the tag Created or Patched and leaves the store as
\* it was.
C10_TagNamesTheCall ==
    [][\A p \in Procs :
        /\ Done(p)' =>
              /\ (ret[p].verb = "Created")' <=> (Issued(p, "Create") /= {})'
              /\ (ret[p].verb = "Patched")' <=> (Issued(p, "Patch") /= {})'
              /\ (ret[p].verb = "Unchanged")'
                    <=> (Issued(p, "Create") \cup Issued(p, "Patch") = {})'
        /\ (/\ Len(calls'[p]) = Len(calls[p]) + 1
            /\ Write(calls'[p][Len(calls'[p])])
            /\ calls'[p][Len(calls'[p])].err /= "nil")
           => /\ Done(p)'
              /\ ret'[p].err = calls'[p][Len(calls'[p])].err
              /\ ret'[p].err /= "nil"
              /\ ret'[p].verb = (IF calls'[p][Len(calls'[p])].op = "Create"
                                 THEN "Created" ELSE "Patched")
              /\ store' = store]_vars

\* A Create was rejected: the tag says Created, the error says it failed.
C10_Witness ==
    \E p \in Procs :
        /\ Done(p)
        /\ ret[p].verb = "Created" /\ ret[p].err = "AlreadyExists"
        /\ Issued(p, "Create") = {2}

----------------------------------------------------------------------------
(* C8 *)

\* The step in which invocation p gets the answer to a write call.
WriteStep(p) == Len(calls'[p]) = Len(calls[p]) + 1 /\ Write(calls'[p][Len(calls'[p])])

\* C8: with two invocations racing on one object, each takes the create or
\* the patch path by the answer to its own Get and computes its patch from
\* that answer alone, whatever the other has written since; a Patch that
\* goes through sets, in the object stored then, the fields it names and
\* leaves the others as the store has them; a write the store rejects is the
\* invocation's last call and its error is returned, with no second Get and
\* no change of path.
C8_RaceNotHandled ==
    [][\A p \in Procs :
        WriteStep(p) =>
            LET c == calls'[p][Len(calls'[p])]
                before == Marshal(store[c.name])
                after == Marshal(store'[c.name])
            IN  /\ Len(calls'[p]) = 2
                /\ c.op = "Create" <=> calls[p][1].err = "NotFound"
                /\ c.op = "Patch" <=> calls[p][1].err = "nil"
                /\ c.op = "Patch" => IsDiff(c.patch, OrigDoc(p), ModDoc(p))
                /\ (c.op = "Patch" /\ c.err = "nil") =>
                      \A f \in JsonFields :
                          after[f] = IF c.patch[f].op = "keep" THEN before[f]
                                     ELSE c.patch[f].v
                /\ c.err /= "nil" =>
                      /\ store' = store
                      /\ Done(p)'
                      /\ ret'[p].err = c.err]_vars

\* Both invocations fetched the same object, each patched another field, and
\* the store holds both changes: the second patch was computed from a Get the
\* first patch had outdated.
C8_Witness ==
    \E p \in Procs, q \in Procs :
        /\ p /= q /\ Done(p) /\ Done(q)
        /\ fetched[p] = fetched[q] /\ fetched[p] /= NilObj
        /\ ret[p].verb = "Patched" /\ ret[p].err = "nil"
        /\ ret[q].verb = "Patched" /\ ret[q].err = "nil"
        /\ transform[p].field = "label" /\ transform[q].field = "subsets"
        /\ store["n1"].label = "x" /\ store["n1"].subsets = transform[q].slice
        /\ fetched[p].label = "" /\ fetched[p].subsets /= transform[q].slice

====
